---- MODULE Spec2Model ----
(***************************************************************************)
(* A model of the two Hemnet scrapers:                                     *)
(*   run_listing_prices.py  (the for-sale script, variant "sale")          *)
(*   run_end_prices.py      (the sold script,     variant "sold")          *)
(* Text is a sequence of symbols: a one-character string is that           *)
(* character, a longer string stands for a run of letters (no digit, white *)
(* space, comma, period or sign in it).  Python values are records         *)
(* [t, n, d, s]: t is the Python type ("None", "int", "float", "str",      *)
(* "bool") or the exception raised ("ValueError", "IndexError", ...).      *)
(***************************************************************************)
EXTENDS Integers, Sequences, FiniteSets, TLC

(***************************************************************************)
(* Bounds of the model.                                                    *)
(***************************************************************************)
\* longest raw text handed to a sanitizer by the sanitizer harness
MaxLen == 3
\* largest end price and percentage handed to the listing-price derivation
MaxEndPrice == 60
MaxPct == 12
\* most listing cards on one result page
MaxCardsPerPage == 2
\* result pages whose cards are chosen freely; later pages repeat one card
MaxVaried == 1

(***************************************************************************)
(* Python values.                                                          *)
(***************************************************************************)
Val(t, n, d, s) == [t |-> t, n |-> n, d |-> d, s |-> s]
None == Val("None", 0, 0, <<>>)
IntV(n) == Val("int", n, 0, <<>>)
\* the float n / 10^d, with no trailing zero counted in d
FloatV(n, d) == Val("float", n, d, <<>>)
StrV(s) == Val("str", 0, 0, s)
BoolV(b) == Val("bool", IF b THEN 1 ELSE 0, 0, <<>>)
Raise(e) == Val(e, 0, 0, <<>>)

IsNone(v) == v.t = "None"
Raises(v) == v.t \in {"ValueError", "IndexError", "AttributeError", "ParserError"}
\* Python truthiness: bool(v), as used by "if price_str:" and by "a and b"
Truthy(v) ==
    CASE v.t = "None" -> FALSE
      [] v.t = "int" -> v.n # 0
      [] v.t = "float" -> v.n # 0
      [] v.t = "str" -> v.s # <<>>
      [] v.t = "bool" -> v.n = 1
      [] OTHER -> FALSE

(***************************************************************************)
(* Characters and the string primitives the sanitizers use.                *)
(***************************************************************************)
Digits == <<"0", "1", "2", "3", "4", "5", "6", "7", "8", "9">>
\* what \d and [^\d] tell apart
IsDigit(c) == \E i \in 1..10 : Digits[i] = c
DigitVal(c) == (CHOOSE i \in 1..10 : Digits[i] = c) - 1
\* what str.split() and str.strip() treat as white space
IsSpace(c) == c = " "
\* the class [\d.,]
IsNumChar(c) == IsDigit(c) \/ c = "." \/ c = ","

\* re.sub(r'[^\d]', '', s)
StripNonDigits(s) == SelectSeq(s, IsDigit)

RECURSIVE DigitsToInt(_)
DigitsToInt(s) ==
    IF s = <<>> THEN 0
    ELSE 10 * DigitsToInt(SubSeq(s, 1, Len(s) - 1)) + DigitVal(s[Len(s)])

\* s.replace(',', '.')
CommaToPeriod(s) == [i \in 1..Len(s) |-> IF s[i] = "," THEN "." ELSE s[i]]

\* membership of a character in a named class
InClass(cls, c) ==
    CASE cls = "space" -> IsSpace(c)
      [] cls = "nonspace" -> ~IsSpace(c)
      [] cls = "digit" -> IsDigit(c)
      [] cls = "nondigit" -> ~IsDigit(c)
      [] cls = "num" -> IsNumChar(c)
      [] cls = "nonnum" -> ~IsNumChar(c)
      [] cls = "comma" -> c = ","
      [] cls = "dot" -> c = "."

\* index of the first position >= i of s whose character is in the class,
\* Len(s) + 1 when there is none
RECURSIVE FirstFrom(_, _, _)
FirstFrom(s, i, cls) ==
    IF i > Len(s) THEN Len(s) + 1
    ELSE IF InClass(cls, s[i]) THEN i
    ELSE FirstFrom(s, i + 1, cls)

\* s.split()[0]: the first white-space delimited token; IndexError when s
\* holds no token
FirstToken(s) ==
    LET a == FirstFrom(s, 1, "nonspace")
        b == FirstFrom(s, a, "space")
    IN  IF a > Len(s) THEN Raise("IndexError") ELSE StrV(SubSeq(s, a, b - 1))

\* re.search(pattern, s).group() for a pattern [class]+: the leftmost,
\* longest run of characters of the class; None when nothing matches
SearchRun(s, cls, noncls) ==
    LET a == FirstFrom(s, 1, cls)
        b == FirstFrom(s, a, noncls)
    IN  IF a > Len(s) THEN None ELSE StrV(SubSeq(s, a, b - 1))

RECURSIVE LastNonSpace(_, _)
LastNonSpace(s, i) ==
    IF i = 0 THEN 0 ELSE IF IsSpace(s[i]) THEN LastNonSpace(s, i - 1) ELSE i

\* s.strip()
Strip(s) ==
    LET a == FirstFrom(s, 1, "nonspace")
    IN  IF a > Len(s) THEN <<>> ELSE SubSeq(s, a, LastNonSpace(s, Len(s)))

\* int(s) for a text of the model's characters: surrounding white space is
\* stripped, one leading "-" is a sign, and the rest must be one or more
\* digits; anything else is a ValueError
PyInt(s0) ==
    LET s == Strip(s0)
        neg == s # <<>> /\ s[1] = "-"
        u == IF neg THEN SubSeq(s, 2, Len(s)) ELSE s
    IN  IF u # <<>> /\ \A i \in 1..Len(u) : IsDigit(u[i])
        THEN IntV(IF neg THEN -DigitsToInt(u) ELSE DigitsToInt(u))
        ELSE Raise("ValueError")

\* s.split(',', 1)[0]
BeforeComma(s) == SubSeq(s, 1, FirstFrom(s, 1, "comma") - 1)

RECURSIVE Pow10(_)
Pow10(k) == IF k = 0 THEN 1 ELSE 10 * Pow10(k - 1)

\* the float n / 10^d in lowest decimal terms
RECURSIVE NormFloat(_, _)
NormFloat(n, d) ==
    IF d > 0 /\ n % 10 = 0 THEN NormFloat(n \div 10, d - 1) ELSE FloatV(n, d)

\* float(s) for a text of the model's characters (digits, ".", "-", other):
\* [-] digits [. [digits]]  or  [-] . digits ; anything else is a ValueError.
\* Surrounding white space is accepted, as float() strips it.
PyFloat(s0) ==
    LET s == Strip(s0)
        neg == s # <<>> /\ s[1] = "-"
        u == IF neg THEN SubSeq(s, 2, Len(s)) ELSE s
        p == FirstFrom(u, 1, "dot")
        whole == SubSeq(u, 1, p - 1)
        frac == SubSeq(u, p + 1, Len(u))
        alldig(x) == \A i \in 1..Len(x) : IsDigit(x[i])
        ok == /\ alldig(whole) /\ alldig(frac)
              /\ Len(whole) + Len(frac) > 0
        mag == DigitsToInt(whole) * Pow10(Len(frac)) + DigitsToInt(frac)
    IN  IF ok THEN NormFloat(IF neg THEN -mag ELSE mag, Len(frac))
        ELSE Raise("ValueError")

\* try: v  except excs: handler
Catch(v, excs, handler) == IF v.t \in excs THEN handler ELSE v

(***************************************************************************)
(* The sanitizers of run_listing_prices.py (the for-sale script).  An      *)
(* argument is None or a str value.                                        *)
(***************************************************************************)
\* int(None) and float(None) raise TypeError, which both helpers catch
safe_int(value) ==
    IF IsNone(value) THEN None
    ELSE Catch(PyInt(value.s), {"ValueError", "TypeError"}, None)

safe_float(value) ==
    IF IsNone(value) THEN None
    ELSE Catch(PyFloat(value.s), {"ValueError", "TypeError"}, None)

sale_sanitize_price(price_str) ==
    IF Truthy(price_str) THEN safe_int(StrV(StripNonDigits(price_str.s)))
    ELSE None

sale_sanitize_size(size_str) ==
    IF Truthy(size_str)
    THEN LET tok == FirstToken(CommaToPeriod(size_str.s))
         IN  IF Raises(tok) THEN tok ELSE safe_float(tok)
    ELSE None

sale_sanitize_rooms(rooms_str) ==
    IF Truthy(rooms_str)
    THEN LET rooms_num == FirstToken(CommaToPeriod(rooms_str.s))
         IN  IF Raises(rooms_num) THEN rooms_num ELSE safe_float(rooms_num)
    ELSE None

\* sanitize_floor without the default floor: None when no digit is found
sale_sanitize_floor_NoDefault(floor_str) ==
    LET match == IF Truthy(floor_str)
                 THEN SearchRun(floor_str.s, "digit", "nondigit")
                 ELSE None
    IN  IF IsNone(match) THEN None ELSE safe_int(match)

sale_sanitize_floor(floor_str) ==
    LET match == IF Truthy(floor_str)
                 THEN SearchRun(floor_str.s, "digit", "nondigit")
                 ELSE None
    IN  IF IsNone(match) THEN IntV(1) ELSE safe_int(match)

sale_sanitize_fee(fee_str) ==
    IF Truthy(fee_str) THEN safe_int(StrV(StripNonDigits(fee_str.s)))
    ELSE None

sale_sanitize_price_per_sqm(price_per_sqm_str) ==
    IF Truthy(price_per_sqm_str)
    THEN safe_int(StrV(StripNonDigits(price_per_sqm_str.s)))
    ELSE None

sale_sanitize_address(address_str) ==
    IF Truthy(address_str) THEN StrV(Strip(BeforeComma(address_str.s)))
    ELSE address_str

(***************************************************************************)
(* The sanitizers of run_end_prices.py (the sold script).                  *)
(***************************************************************************)
sold_sanitize_price(price_str) ==
    IF Truthy(price_str)
    THEN Catch(PyInt(StripNonDigits(price_str.s)), {"ValueError"}, None)
    ELSE None

sold_sanitize_price_per_sqm(price_per_sqm_str) ==
    IF Truthy(price_per_sqm_str)
    THEN Catch(PyInt(StripNonDigits(price_per_sqm_str.s)), {"ValueError"}, None)
    ELSE None

\* sold_number_part reading the first white-space delimited token, as the
\* for-sale script does
sold_number_part_FirstToken(s) ==
    LET tok == FirstToken(CommaToPeriod(s))
    IN  IF Raises(tok) THEN Raise("AttributeError") ELSE PyFloat(tok.s)

\* re.search(r"[\d.,]+", s).group().replace(',', '.') handed to float();
\* .group() of no match is an AttributeError
sold_number_part(s) ==
    LET m == SearchRun(s, "num", "nonnum")
    IN  IF IsNone(m) THEN Raise("AttributeError")
        ELSE PyFloat(CommaToPeriod(m.s))

sold_sanitize_size(size_str) ==
    IF Truthy(size_str)
    THEN Catch(sold_number_part(size_str.s),
               {"ValueError", "AttributeError"}, None)
    ELSE None

sold_sanitize_rooms(rooms_str) ==
    IF Truthy(rooms_str)
    THEN Catch(sold_number_part(rooms_str.s),
               {"ValueError", "AttributeError"}, None)
    ELSE None

\* no try/except here: int('') propagates its ValueError
sold_sanitize_fee(fee_str) ==
    IF Truthy(fee_str) THEN PyInt(StripNonDigits(fee_str.s)) ELSE None

sold_sanitize_address(address_str) ==
    IF Truthy(address_str) THEN StrV(Strip(BeforeComma(address_str.s)))
    ELSE address_str

\* dateutil's parser.parse(text, dayfirst=True).strftime('%Y-%m-%d') after
\* text.replace("Såld ", ""), on date labels written as a sequence of
\* lexemes: a numeric date parses (day first), Swedish words do not
DateLexemes == {"Såld ", "12.03.2023", "i går"}
parse_swedish_date(date_str) ==
    LET NotPrefix(l) == l # "Såld "
        rest == SelectSeq(date_str.s, NotPrefix)
    IN  IF rest = <<"12.03.2023">>
        THEN StrV(<<"2023-03-12">>)
        ELSE Raise("ParserError")

(***************************************************************************)
(* int(end_price / (1 + pct / 100)) in Python's binary64 arithmetic.       *)
(* The quotient 100*end_price / (100+pct) is truncated.  When it is a      *)
(* whole number m, the double nearest to 1 + pct/100 decides: if that      *)
(* double lies above 1 + pct/100 by more than the division's rounding      *)
(* absorbs, the float quotient is just below m and int() gives m - 1.      *)
(***************************************************************************)
RECURSIVE Pow2(_)
Pow2(n) == IF n = 0 THEN 1 ELSE 2 * Pow2(n - 1)

\* 2^n mod m
RECURSIVE Pow2Mod(_, _)
Pow2Mod(n, m) == IF n = 0 THEN 1 % m ELSE (2 * Pow2Mod(n - 1, m)) % m

\* the binary exponent of num/den > 0: the i with 2^i <= num/den < 2^(i+1)
RECURSIVE BinExp(_, _)
BinExp(num, den) ==
    IF num >= 2 * den THEN BinExp(num, 2 * den) + 1
    ELSE IF num < den THEN BinExp(2 * num, den) - 1
    ELSE 0

\* bits of a binary64 significand below the leading one
MantissaBits == 52

\* D = fl(1 + fl(pct/100)) against d = 1 + pct/100, for pct > 0:
\* D - d = tau / (100 * 2^s) units in the last place of D, D in [2^k, 2^(k+1))
Binary64Deviation(pct) ==
    LET k == BinExp(100 + pct, 100)
        i == -BinExp(pct, 100)
        s == i + k
        \* fl(pct/100): the fraction of 2^(52+i) * pct / 100 that is rounded
        x1 == (Pow2Mod(MantissaBits + i, 100) * pct) % 100
        up1 == x1 > 50
        e1 == IF up1 THEN 100 - x1 ELSE -x1
        \* the s + 1 low bits of the significand of fl(pct/100)
        md == 100 * Pow2(s + 1)
        w == ((((Pow2Mod(MantissaBits + i, md) * pct) % md) \div 100)
                 + (IF up1 THEN 1 ELSE 0)) % Pow2(s + 1)
        f == w % Pow2(s)
        odd == w \div Pow2(s)
        \* fl(1 + x): round to nearest, ties to even
        up2 == s > 0 /\ (2 * f > Pow2(s) \/ (2 * f = Pow2(s) /\ odd = 1))
        e2 == IF up2 THEN Pow2(s) - f ELSE -f
    IN  [tau |-> 100 * e2 + e1, s |-> s, k |-> k]

ListingPrice(end_price, pct) ==
    LET c == 100 + pct
        m == (100 * end_price) \div c
        dev == Binary64Deviation(pct)
        \* 2^j < m <= 2^(j+1): half the gap between m and the double below
        \* it is 2^(j-53)
        j == IF m = 1 THEN -1
             ELSE IF Pow2(BinExp(m, 1)) = m THEN BinExp(m, 1) - 1
             ELSE BinExp(m, 1)
        a == (j + 1 + dev.s) - (dev.k + 2)
        below == IF a >= 0 THEN m * dev.tau > Pow2(a) * c
                 ELSE m * dev.tau * Pow2(-a) > c
    IN  IF (100 * end_price) % c # 0 \/ end_price = 0 \/ pct = 0 THEN m
        ELSE IF dev.tau > 0 /\ below THEN m - 1
        ELSE m

(***************************************************************************)
(* Listing cards.  A card is what the selectors of the two scripts find in *)
(* one <a class="hcl-card"> element:                                       *)
(*   href, title, location, features          both scripts                 *)
(*   primary, secondary                       for-sale attribute spans     *)
(*   sizeRooms, fee, priceDiv, priceSpans,                                 *)
(*   pricePerSqm, soldAt                      sold-card elements           *)
(***************************************************************************)
CardGood ==
    [href |-> StrV(<<"/bostad/a">>),
     title |-> StrV(<<"Storgatan", " ", "1", ",", " ", "Solna">>),
     location |-> StrV(<<"Solna">>),
     features |-> << <<"Hiss">>, <<" ", "Balkong">> >>,
     primary |-> << <<"5", " ", "0", "0", "0", " ", "kr">>,
                    <<"4", "5", ",", "5", " ", "m²">>,
                    <<"2", " ", "rum">>,
                    <<"vån", " ", "3", " ", "av", " ", "6">> >>,
     secondary |-> << <<"3", " ", "0", "0", "0", " ", "kr/mån">>,
                      <<"1", "1", "0", " ", "kr/m²">> >>,
     sizeRooms |-> << <<"4", "5", ",", "5", " ", "m²">>, <<"2", " ", "rum">> >>,
     fee |-> StrV(<<"3", " ", "0", "0", "0", " ", "kr/mån">>),
     priceDiv |-> TRUE,
     priceSpans |-> << <<"Slutpris", " ", "1", " ", "1", "0", "0", " ",
                         "0", "0", "0", " ", "kr">>,
                       <<"+", "1", "0", " ", "%">> >>,
     pricePerSqm |-> StrV(<<"1", "2", "1", " ", "kr/m²">>),
     soldAt |-> StrV(<<"Såld ", "12.03.2023">>)]

\* a second complete card: no comma in the title, a price that fell, no
\* floor, no fee element, no features
CardPlain ==
    [href |-> StrV(<<"/bostad/b">>),
     title |-> StrV(<<"Lillgatan", " ", "2">>),
     location |-> None,
     features |-> <<>>,
     primary |-> << <<"9", "0", "0", " ", "kr">>,
                    <<"ca", " ", "3", "0", " ", "m²">>,
                    <<"1", ",", "5", " ", "rum">> >>,
     secondary |-> <<>>,
     sizeRooms |-> << <<"ca", " ", "3", "0", " ", "m²">>,
                      <<"1", ",", "5", " ", "rum">> >>,
     fee |-> None,
     priceDiv |-> TRUE,
     priceSpans |-> << <<"Slutpris", " ", "8", "5", "5", " ", "kr">>,
                       <<"-", "5", " ", "%">> >>,
     pricePerSqm |-> None,
     soldAt |-> None]

\* no title element
CardNoAddress == [CardGood EXCEPT !.title = None]

\* no price: no primary attribute spans, no selling-price block
CardNoPrice ==
    [CardGood EXCEPT !.primary = <<>>, !.priceDiv = FALSE, !.priceSpans = <<>>]

\* a selling-price block with the end price alone
CardNoChange ==
    [CardGood EXCEPT !.priceSpans = << <<"Slutpris", " ", "5", "0", "0", " ", "kr">> >>]

\* a fee text without a digit
CardNoFee == [CardGood EXCEPT !.fee = StrV(<<"Avgift", " ", "saknas">>)]

\* a sale-date label that is no date
CardOddDate == [CardGood EXCEPT !.soldAt = StrV(<<"Såld ", "i går">>)]

\* the cards a page may hold, by name
CardOf ==
    [good |-> CardGood, plain |-> CardPlain, noaddress |-> CardNoAddress,
     noprice |-> CardNoPrice, nochange |-> CardNoChange, nofee |-> CardNoFee,
     odddate |-> CardOddDate]

CardPool == DOMAIN CardOf

\* the card of every page after the freely chosen ones
FillerCard == "noaddress"

\* seq[i].strip() if len(seq) > i else None   (i counted from 1 here)
StrippedAt(seq, i) == IF Len(seq) >= i THEN StrV(Strip(seq[i])) ELSE None

\* 'Hiss' in [feature.text.strip() for feature in features]
HasFeature(features, label) ==
    BoolV(\E i \in 1..Len(features) : Strip(features[i]) = <<label>>)

BaseUrl == "https://www.hemnet.se"

\* the exception a listing's fields hold, None when none was raised
Raised(listing) ==
    IF \E f \in DOMAIN listing : Raises(listing[f])
    THEN listing[CHOOSE f \in DOMAIN listing : Raises(listing[f])]
    ELSE None

(***************************************************************************)
(* The body of "for item in items" up to the validation, per script.       *)
(***************************************************************************)
sale_extract(item) ==
    LET attributes == item.primary
        secondary_attributes == item.secondary
    IN  [link |-> StrV(<<BaseUrl>> \o item.href.s),
         exact_address |-> sale_sanitize_address(item.title),
         price |-> IF attributes # <<>>
                   THEN sale_sanitize_price(StrippedAt(attributes, 1))
                   ELSE None,
         size |-> IF attributes # <<>>
                  THEN sale_sanitize_size(StrippedAt(attributes, 2))
                  ELSE None,
         rooms |-> IF attributes # <<>>
                   THEN sale_sanitize_rooms(StrippedAt(attributes, 3))
                   ELSE None,
         floor |-> IF attributes # <<>>
                   THEN sale_sanitize_floor(StrippedAt(attributes, 4))
                   ELSE None,
         monthly_fee |-> IF secondary_attributes # <<>>
                         THEN sale_sanitize_fee(StrippedAt(secondary_attributes, 1))
                         ELSE None,
         price_per_sqm |-> IF secondary_attributes # <<>>
                           THEN sale_sanitize_price_per_sqm(StrippedAt(secondary_attributes, 2))
                           ELSE None,
         location |-> item.location,
         has_elevator |-> HasFeature(item.features, "Hiss"),
         has_balcony |-> HasFeature(item.features, "Balkong")]

\* int(re.sub(r'[^\d]', '', price_change_text)) inside try/except ValueError:
\* the percentage stays None when the text holds no digit
sold_price_change(price_change_text) ==
    Catch(PyInt(StripNonDigits(Strip(price_change_text))), {"ValueError"}, None)

sold_extract(item) ==
    LET size_rooms == item.sizeRooms
        price_change == item.priceSpans
        end_price == IF item.priceDiv /\ Len(price_change) >= 1
                     THEN sold_sanitize_price(StrV(price_change[1]))
                     ELSE None
        pct == IF item.priceDiv /\ Len(price_change) > 1
               THEN sold_price_change(price_change[2])
               ELSE None
    IN  [link |-> StrV(<<BaseUrl>> \o item.href.s),
         exact_address |-> sold_sanitize_address(item.title),
         size |-> IF Len(size_rooms) >= 2
                  THEN sold_sanitize_size(StrV(size_rooms[1]))
                  ELSE None,
         rooms |-> IF Len(size_rooms) >= 2
                   THEN sold_sanitize_rooms(StrV(size_rooms[2]))
                   ELSE None,
         monthly_fee |-> sold_sanitize_fee(item.fee),
         location |-> item.location,
         has_elevator |-> HasFeature(item.features, "Hiss"),
         has_balcony |-> HasFeature(item.features, "Balkong"),
         listing_price |-> IF ~IsNone(end_price) /\ ~IsNone(pct)
                           THEN IntV(ListingPrice(end_price.n, pct.n))
                           ELSE None,
         end_price |-> end_price,
         price_change_percentage |-> pct,
         price_per_sqm |-> IF item.priceDiv /\ ~IsNone(item.pricePerSqm)
                           THEN sold_sanitize_price_per_sqm(item.pricePerSqm)
                           ELSE None,
         date |-> IF ~IsNone(item.soldAt)
                  THEN parse_swedish_date(item.soldAt)
                  ELSE None]

Extract(v, item) == IF v = "sale" THEN sale_extract(item) ELSE sold_extract(item)

Variants == {"sale", "sold"}

\* the listing each script builds from each card of the pool
ListingTable == [v \in Variants |-> [id \in CardPool |-> Extract(v, CardOf[id])]]
ListingOf(v, id) == ListingTable[v][id]

\* the validation: "if listing['exact_address'] and listing['price']" and
\* "if listing['exact_address'] and listing['end_price'] and listing['listing_price']"
sale_keep(listing) == Truthy(listing.exact_address) /\ Truthy(listing.price)

\* the sold validation without its listing_price condition
sold_keep_EndPriceOnly(listing) ==
    /\ Truthy(listing.exact_address)
    /\ Truthy(listing.end_price)

sold_keep(listing) ==
    /\ Truthy(listing.exact_address)
    /\ Truthy(listing.end_price)
    /\ Truthy(listing.listing_price)

Keep(v, listing) == IF v = "sale" THEN sale_keep(listing) ELSE sold_keep(listing)

(***************************************************************************)
(* save_to_csv: the file as a sequence of rows, a row as a sequence of     *)
(* cells, a cell as text.                                                  *)
(***************************************************************************)
sale_fieldnames ==
    <<"link", "exact_address", "price", "size", "rooms", "floor",
      "monthly_fee", "price_per_sqm", "location", "has_elevator",
      "has_balcony", "latitude", "longitude">>

sold_fieldnames ==
    <<"link", "exact_address", "size", "rooms", "monthly_fee", "location",
      "has_elevator", "has_balcony", "listing_price", "end_price",
      "price_change_percentage", "price_per_sqm", "date">>

Fieldnames(v) == IF v = "sale" THEN sale_fieldnames ELSE sold_fieldnames

\* str(n) for n >= 0
RECURSIVE NatToText(_)
NatToText(n) ==
    IF n < 10 THEN <<Digits[n + 1]>>
    ELSE NatToText(n \div 10) \o <<Digits[(n % 10) + 1]>>

\* the d low decimal digits of n, zero padded
RECURSIVE FracText(_, _)
FracText(n, d) ==
    IF d = 0 THEN <<>> ELSE FracText(n \div 10, d - 1) \o <<Digits[(n % 10) + 1]>>

\* what csv.writer writes for a value: '' for None, str(value) otherwise
ToCell(v) ==
    LET mag == IF v.n < 0 THEN -v.n ELSE v.n
        sign == IF v.n < 0 THEN <<"-">> ELSE <<>>
    IN  CASE v.t = "None" -> <<>>
          [] v.t = "str" -> v.s
          [] v.t = "bool" -> IF v.n = 1 THEN <<"True">> ELSE <<"False">>
          [] v.t = "int" -> sign \o NatToText(mag)
          [] v.t = "float" ->
                sign \o NatToText(mag \div Pow10(v.d)) \o <<".">>
                     \o (IF v.d = 0 THEN <<"0">> ELSE FracText(mag % Pow10(v.d), v.d))

\* writer.writerow(listing): a cell per field name, '' for a missing key
CsvRow(v, listing) ==
    [i \in 1..Len(Fieldnames(v)) |->
        IF Fieldnames(v)[i] \in DOMAIN listing
        THEN ToCell(listing[Fieldnames(v)[i]])
        ELSE <<>>]

CsvHeader(v) == [i \in 1..Len(Fieldnames(v)) |-> <<Fieldnames(v)[i]>>]

NoFile == [exists |-> FALSE, rows |-> <<>>]
\* a file left by an earlier run
StaleFile == [exists |-> TRUE, rows |-> << << <<"link">> >>, << <<"old">> >> >>]

\* open(filename, 'w'), writeheader(), a writerow() per listing
WrittenFile(v, ls) ==
    [exists |-> TRUE,
     rows |-> <<CsvHeader(v)>> \o [i \in 1..Len(ls) |-> CsvRow(v, ls[i])]]

(***************************************************************************)
(* The script: scrape_hemnet(url), then save_to_csv(listings, filename).   *)
(***************************************************************************)
VARIABLES
    variant,            \* "sale" or "sold": which script runs
    pc,                 \* "fetch", "cards", "sleep", "done", "exit"
    page,               \* the page counter
    items,              \* the cards (by name) of the current page not yet
                        \* iterated
    listings,           \* the kept listings
    skipped_listings,   \* the skip counter
    outcome,            \* how the loop ended: "", "empty", "ceiling",
                        \* "fetch_error", "card_error"
    file,               \* the output file on disk
    \* what the run has done so far
    requested,          \* page numbers requested, in order
    served,             \* cards on the pages fetched so far
    expected,           \* the kept listings of the pages fetched so far
    started,            \* cards whose loop body has begun
    sleeps,             \* completed time.sleep(1) calls
    stale,              \* whether an output file existed before the run
    \* the sanitizer harness
    input,              \* the argument drawn
    call                \* the function applied and what it returned

scrapeVars ==
    <<variant, pc, page, items, listings, skipped_listings, outcome, file,
      requested, served, expected, started, sleeps, stale>>
harnessVars == <<input, call>>
vars == <<scrapeVars, harnessVars>>

\* "if page == 50: break"
PageCeiling == 50

NoInput ==
    [kind |-> "none", text |-> None, end_price |-> 0, pct |-> 0, item |-> None]
NoCall == [fn |-> "none", sale |-> None, sold |-> None, listing |-> None]

Init ==
    /\ variant \in Variants
    /\ pc = "fetch"
    /\ page = 1
    /\ items = <<>>
    /\ listings = <<>>
    /\ skipped_listings = 0
    /\ outcome = ""
    /\ stale \in BOOLEAN
    /\ file = IF stale THEN StaleFile ELSE NoFile
    /\ requested = <<>>
    /\ served = 0
    /\ expected = <<>>
    /\ started = 0
    /\ sleeps = 0
    /\ input = NoInput
    /\ call = NoCall

\* sequences of 1..n cards of the pool
RECURSIVE CardSeqs(_)
CardSeqs(n) ==
    IF n = 0 THEN {<<>>}
    ELSE LET shorter == CardSeqs(n - 1)
         IN  shorter \cup {Append(s, c) : s \in {x \in shorter : Len(x) = n - 1},
                                          c \in CardPool}

\* the listings a page's cards yield that pass the validation, in card order
KeptOf(v, its) ==
    LET Passes(l) == IsNone(Raised(l)) /\ Keep(v, l)
    IN  SelectSeq([i \in 1..Len(its) |-> ListingOf(v, its[i])], Passes)

VariedPages == CardSeqs(MaxCardsPerPage) \ {<<>>}

\* what find_all('a', class_='hcl-card') may return for a page with cards
PageItems(n) == IF n <= MaxVaried THEN VariedPages ELSE {<<FillerCard>>}

\* FetchFail as a fatal abort: the listings collected so far are dropped
FetchFail_Discards ==
    /\ pc = "fetch"
    /\ requested' = Append(requested, page)
    /\ outcome' = "fetch_error"
    /\ listings' = <<>>
    /\ pc' = "done"
    /\ UNCHANGED <<variant, page, items, skipped_listings, file,
                   served, expected, started, sleeps, stale, harnessVars>>

\* FetchFail with a retry: the loop goes round again on the same page
FetchFail_Retries ==
    /\ pc = "fetch"
    /\ requested' = Append(requested, page)
    /\ Len(requested) < PageCeiling
    /\ UNCHANGED <<variant, pc, page, items, listings, skipped_listings,
                   outcome, file, served, expected, started, sleeps, stale,
                   harnessVars>>

\* requests.get or raise_for_status raises: except, print, break
FetchFail ==
    /\ pc = "fetch"
    /\ requested' = Append(requested, page)
    /\ outcome' = "fetch_error"
    /\ pc' = "done"
    /\ UNCHANGED <<variant, page, items, listings, skipped_listings, file,
                   served, expected, started, sleeps, stale, harnessVars>>

\* FetchEmpty counting the empty page as a skipped listing
FetchEmpty_Counts ==
    /\ pc = "fetch"
    /\ requested' = Append(requested, page)
    /\ outcome' = "empty"
    /\ skipped_listings' = skipped_listings + 1
    /\ pc' = "done"
    /\ UNCHANGED <<variant, page, items, listings, file,
                   served, expected, started, sleeps, stale, harnessVars>>

\* the page holds no card: "if not items: break"
FetchEmpty ==
    /\ pc = "fetch"
    /\ requested' = Append(requested, page)
    /\ outcome' = "empty"
    /\ pc' = "done"
    /\ UNCHANGED <<variant, page, items, listings, skipped_listings, file,
                   served, expected, started, sleeps, stale, harnessVars>>

\* the page holds cards: the for loop starts
FetchCards ==
    /\ pc = "fetch"
    /\ \E its \in PageItems(page) :
          /\ items' = its
          /\ served' = served + Len(its)
          /\ expected' = expected \o KeptOf(variant, its)
    /\ requested' = Append(requested, page)
    /\ pc' = "cards"
    /\ UNCHANGED <<variant, page, listings, skipped_listings, outcome, file,
                   started, sleeps, stale, harnessVars>>

\* one iteration of "for item in items": build the listing, then keep it
\* or count it; an exception of a sanitizer leaves the loop through
\* "except Exception", with the card neither kept nor counted
ProcessCard ==
    /\ pc = "cards"
    /\ items # <<>>
    /\ LET listing == ListingOf(variant, Head(items))
       IN  /\ started' = started + 1
           /\ items' = Tail(items)
           /\ IF ~IsNone(Raised(listing))
              THEN /\ outcome' = "card_error"
                   /\ pc' = "done"
                   /\ UNCHANGED <<listings, skipped_listings>>
              ELSE /\ IF Keep(variant, listing)
                      THEN /\ listings' = Append(listings, listing)
                           /\ UNCHANGED skipped_listings
                      ELSE /\ skipped_listings' = skipped_listings + 1
                           /\ UNCHANGED listings
                   /\ UNCHANGED <<outcome, pc>>
    /\ UNCHANGED <<variant, page, file, requested, served, expected, sleeps,
                   stale, harnessVars>>

\* after the last card: the progress lines, "page += 1", and time.sleep(1)
\* begins
EndPage ==
    /\ pc = "cards"
    /\ items = <<>>
    /\ page' = page + 1
    /\ pc' = "sleep"
    /\ UNCHANGED <<variant, items, listings, skipped_listings, outcome, file,
                   requested, served, expected, started, sleeps, stale,
                   harnessVars>>

\* Wake with the ceiling test off by one: "if page == 51: break"
Wake_LateCeiling ==
    /\ pc = "sleep"
    /\ sleeps' = sleeps + 1
    /\ IF page = PageCeiling + 1
       THEN pc' = "done" /\ outcome' = "ceiling"
       ELSE pc' = "fetch" /\ UNCHANGED outcome
    /\ UNCHANGED <<variant, page, items, listings, skipped_listings, file,
                   requested, served, expected, started, stale, harnessVars>>

\* time.sleep(1) returns; "if page == 50: break", else the next iteration
Wake ==
    /\ pc = "sleep"
    /\ sleeps' = sleeps + 1
    /\ IF page = PageCeiling
       THEN pc' = "done" /\ outcome' = "ceiling"
       ELSE pc' = "fetch" /\ UNCHANGED outcome
    /\ UNCHANGED <<variant, page, items, listings, skipped_listings, file,
                   requested, served, expected, started, stale, harnessVars>>

\* SaveToCsv without the "if not listings: return" guard
SaveToCsv_AlwaysWrites ==
    /\ pc = "done"
    /\ file' = WrittenFile(variant, listings)
    /\ pc' = "exit"
    /\ UNCHANGED <<variant, page, items, listings, skipped_listings, outcome,
                   requested, served, expected, started, sleeps, stale,
                   harnessVars>>

\* scrape_hemnet returns listings; save_to_csv(listings, filename)
SaveToCsv ==
    /\ pc = "done"
    /\ file' = IF listings = <<>> THEN file ELSE WrittenFile(variant, listings)
    /\ pc' = "exit"
    /\ UNCHANGED <<variant, page, items, listings, skipped_listings, outcome,
                   requested, served, expected, started, sleeps, stale,
                   harnessVars>>

Next ==
    \/ FetchFail
    \/ FetchEmpty
    \/ FetchCards
    \/ ProcessCard
    \/ EndPage
    \/ Wake
    \/ SaveToCsv

Spec == Init /\ [][Next]_vars

(***************************************************************************)
(* The sanitizer harness: one argument is drawn, one function is applied   *)
(* to it, by the name it has in both scripts where both define it.         *)
(***************************************************************************)
Alphabet == {"0", "1", "5", ",", ".", " ", "m", "-"}

RECURSIVE SeqsUpTo(_, _)
SeqsUpTo(S, n) ==
    IF n = 0 THEN {<<>>}
    ELSE LET shorter == SeqsUpTo(S, n - 1)
         IN  shorter \cup {Append(s, c) : s \in {x \in shorter : Len(x) = n - 1},
                                          c \in S}

TextInputs == {None} \cup {StrV(s) : s \in SeqsUpTo(Alphabet, MaxLen)}
DateInputs == {StrV(s) : s \in SeqsUpTo(DateLexemes, 2)}
\* small end prices, and the end price of the documented example
EndPrices == (0..MaxEndPrice) \cup {1100000}
Percentages == 0..MaxPct

\* the texts of the two spans of a selling-price block, and of the first
\* and the fourth primary attribute of a for-sale card
EndPriceTexts ==
    {<<"Slutpris", " ", "1", "1", "0", " ", "kr">>,
     <<"Slutpris", " ", "6", "0", " ", "kr">>,
     <<"Slutpris", " ", "1", " ", "kr">>,
     <<"Slutpris", " ", "0", " ", "kr">>,
     <<"Slutpris">>}
PriceChangeTexts ==
    {<<"+", "1", "0", " ", "%">>, <<"-", "5", " ", "%">>, <<"±", "0", " ", "%">>,
     <<"+", "1", "5", "0", " ", "%">>, <<" ", "-", " ", "%">>, <<>>}
PriceTexts == {<<"5", " ", "0", "0", "0", " ", "kr">>, <<"Pris", " ", "saknas">>}
FloorTexts ==
    {<<"vån", " ", "3", " ", "av", " ", "6">>, <<"1", "0", " ", "tr">>,
     <<"0">>, <<"BV">>, <<" ">>}

\* sold cards that differ from CardPlain in the selling-price block
SoldCardInputs ==
    LET spans == {<<>>} \cup {<<e>> : e \in EndPriceTexts}
                        \cup {<<e, p>> : e \in EndPriceTexts, p \in PriceChangeTexts}
    IN  {[CardPlain EXCEPT !.title = t, !.priceDiv = d, !.priceSpans = sp] :
            t \in {CardPlain.title, None}, d \in BOOLEAN, sp \in spans}

\* for-sale cards that differ from CardPlain in the primary attributes
SaleCardInputs ==
    LET size == CardPlain.primary[2]
        rooms == CardPlain.primary[3]
        attrs == {<<>>} \cup {<<p>> : p \in PriceTexts}
                        \cup {<<p, size>> : p \in PriceTexts}
                        \cup {<<p, size, rooms>> : p \in PriceTexts}
                        \cup {<<p, size, rooms, f>> : p \in PriceTexts, f \in FloorTexts}
    IN  {[CardPlain EXCEPT !.title = t, !.primary = a] :
            t \in {CardPlain.title, None}, a \in attrs}

CardInputs == SoldCardInputs \cup SaleCardInputs

\* the value of a function a script does not define
Undefined == Val("undefined", 0, 0, <<>>)

SanitizerNames ==
    {"sanitize_price", "sanitize_price_per_sqm", "sanitize_size",
     "sanitize_rooms", "sanitize_fee", "sanitize_address", "sanitize_floor",
     "price_change"}

SaleCall(f, x) ==
    CASE f = "sanitize_price" -> sale_sanitize_price(x)
      [] f = "sanitize_price_per_sqm" -> sale_sanitize_price_per_sqm(x)
      [] f = "sanitize_size" -> sale_sanitize_size(x)
      [] f = "sanitize_rooms" -> sale_sanitize_rooms(x)
      [] f = "sanitize_fee" -> sale_sanitize_fee(x)
      [] f = "sanitize_address" -> sale_sanitize_address(x)
      [] f = "sanitize_floor" -> sale_sanitize_floor(x)
      [] OTHER -> Undefined

\* the percentage parse is inline code, reached with the text of an element
SoldCall(f, x) ==
    CASE f = "sanitize_price" -> sold_sanitize_price(x)
      [] f = "sanitize_price_per_sqm" -> sold_sanitize_price_per_sqm(x)
      [] f = "sanitize_size" -> sold_sanitize_size(x)
      [] f = "sanitize_rooms" -> sold_sanitize_rooms(x)
      [] f = "sanitize_fee" -> sold_sanitize_fee(x)
      [] f = "sanitize_address" -> sold_sanitize_address(x)
      [] f = "price_change" /\ ~IsNone(x) -> sold_price_change(x.s)
      [] OTHER -> Undefined

SanInit ==
    /\ pc = "harness"
    /\ page = 1
    /\ items = <<>>
    /\ listings = <<>>
    /\ skipped_listings = 0
    /\ outcome = ""
    /\ stale = FALSE
    /\ file = NoFile
    /\ requested = <<>>
    /\ served = 0
    /\ expected = <<>>
    /\ started = 0
    /\ sleeps = 0
    /\ call = NoCall
    /\ \/ \E v \in Variants, c \in CardInputs :
             /\ variant = v
             /\ input = [kind |-> "card", text |-> None, end_price |-> 0,
                         pct |-> 0, item |-> c]
       \/ \E x \in TextInputs :
             /\ variant = "sale"
             /\ input = [kind |-> "text", text |-> x, end_price |-> 0, pct |-> 0,
                      item |-> None]
       \/ \E x \in DateInputs :
             /\ variant = "sale"
             /\ input = [kind |-> "date", text |-> x, end_price |-> 0, pct |-> 0,
                      item |-> None]
       \/ \E e \in EndPrices, p \in Percentages :
             /\ variant = "sale"
             /\ input = [kind |-> "prices", text |-> None, end_price |-> e, pct |-> p,
                      item |-> None]

ApplySanitizer ==
    /\ pc = "harness" /\ call.fn = "none" /\ input.kind = "text"
    /\ \E f \in SanitizerNames :
          call' = [fn |-> f, sale |-> SaleCall(f, input.text),
                   sold |-> SoldCall(f, input.text), listing |-> None]
    /\ UNCHANGED <<scrapeVars, input>>

ApplyDateParse ==
    /\ pc = "harness" /\ call.fn = "none" /\ input.kind = "date"
    /\ call' = [fn |-> "parse_swedish_date", sale |-> Undefined,
                sold |-> parse_swedish_date(input.text), listing |-> None]
    /\ UNCHANGED <<scrapeVars, input>>

ApplyDerive ==
    /\ pc = "harness" /\ call.fn = "none" /\ input.kind = "prices"
    /\ call' = [fn |-> "listing_price", sale |-> Undefined,
                sold |-> IntV(ListingPrice(input.end_price, input.pct)),
                listing |-> None]
    /\ UNCHANGED <<scrapeVars, input>>

\* the body of "for item in items" on the card drawn: the listing is built,
\* then kept or counted; an exception leaves through "except Exception"
ApplyCard ==
    /\ pc = "harness" /\ call.fn = "none" /\ input.kind = "card"
    /\ call' = [fn |-> "card", sale |-> Undefined, sold |-> Undefined,
                listing |-> Extract(variant, input.item)]
    /\ LET listing == call'.listing
       IN  /\ started' = started + 1
           /\ IF ~IsNone(Raised(listing))
              THEN /\ outcome' = "card_error"
                   /\ UNCHANGED <<listings, skipped_listings>>
              ELSE /\ IF Keep(variant, listing)
                      THEN /\ listings' = Append(listings, listing)
                           /\ UNCHANGED skipped_listings
                      ELSE /\ skipped_listings' = skipped_listings + 1
                           /\ UNCHANGED listings
                   /\ UNCHANGED outcome
    /\ UNCHANGED <<variant, pc, page, items, file, requested, served, expected,
                   sleeps, stale, input>>

SanNext == ApplySanitizer \/ ApplyDateParse \/ ApplyDerive \/ ApplyCard

SanSpec == SanInit /\ [][SanNext]_vars

(***************************************************************************)
(* Properties.                                                             *)
(***************************************************************************)
Last(s) == s[Len(s)]

\* C1: when the fetch of page N raises, the collection scrape_hemnet returns
\* is exactly the kept listings of pages 1..N-1, in page and card order:
\* nothing of page N is in it and nothing collected earlier is lost.
C1_PartialFailure ==
    outcome = "fetch_error" =>
        /\ Last(requested) = page
        /\ Len(requested) = page
        /\ listings = expected

\* C1's case: page 1 gave a kept and a skipped listing, a later fetch raised
C1_Witness ==
    /\ outcome = "fetch_error"
    /\ page > 1
    /\ listings # <<>>
    /\ skipped_listings > 0

\* C2: no request is ever issued for page 50 or beyond; at most the pages
\* 1..49 are fetched.
C2_HardCeiling ==
    /\ \A i \in 1..Len(requested) : requested[i] <= PageCeiling - 1
    /\ Len(requested) <= PageCeiling - 1

\* C2's case: the loop ran into the ceiling after 49 pages with cards
C2_Witness ==
    /\ outcome = "ceiling"
    /\ Len(requested) = PageCeiling - 1
    /\ page = PageCeiling

\* C3: every normalizer is total: whatever the text (or None), it returns a
\* value or None and never raises.
C3_NormalizersTotal ==
    call.fn # "none" => ~Raises(call.sale) /\ ~Raises(call.sold)

\* C4: every card whose loop body ran is either in the collection or
\* counted as skipped, exactly once; a card missing a mandatory field is
\* not in the collection; so kept + skipped = cards processed.
C4_KeptOrSkippedOnce ==
    /\ Len(listings) + skipped_listings = started
    /\ \A i \in 1..Len(listings) : Keep(variant, listings[i])

\* C5: a fetched page without cards ends the loop normally, with no error,
\* no further request, and the collection and the skip counter as the
\* previous page left them.
C5_EmptyPageEndsLoop ==
    /\ [](outcome = "empty" =>
            /\ pc \in {"done", "exit"}
            /\ Last(requested) = page
            /\ listings = expected
            /\ started = served)
    /\ [][outcome' = "empty" /\ outcome # "empty" =>
            /\ pc' = "done"
            /\ requested' = Append(requested, page)
            /\ listings' = listings
            /\ skipped_listings' = skipped_listings]_vars

\* C5's case: an empty page after a page that gave kept and skipped listings
C5_Witness ==
    /\ outcome = "empty"
    /\ page > 1
    /\ listings # <<>>
    /\ skipped_listings > 0

\* C6: the listing price derived from an end price and a percentage is the
\* quotient 100 * end_price / (100 + percentage) rounded to the nearest
\* integer; 1100000 and 10 give 1000000.
C6_ListingPriceRounded ==
    call.fn = "listing_price" =>
        LET r == call.sold.n
            c == 100 + input.pct
            diff == r * c - 100 * input.end_price
            dist == IF diff < 0 THEN -diff ELSE diff
        IN  /\ 2 * dist <= c
            /\ (input.end_price = 1100000 /\ input.pct = 10) => r = 1000000

HasDigit(s) == \E i \in 1..Len(s) : IsDigit(s[i])

\* C7: the integer sanitizers of both scripts (price, fee, price per area)
\* return the integer spelled by the digits of the text, in order, when the
\* text holds a digit, and None for None, '' and a text without a digit.
C7_DigitsOnlyInteger ==
    call.fn \in {"sanitize_price", "sanitize_fee", "sanitize_price_per_sqm"} =>
        LET x == input.text
            want == IF Truthy(x) /\ HasDigit(x.s)
                    THEN IntV(DigitsToInt(StripNonDigits(x.s)))
                    ELSE None
        IN  call.sale = want /\ call.sold = want

\* s[a..b] is the first white-space delimited token of s
TokenAt(s, a, b) ==
    /\ a <= b
    /\ \A i \in 1..(a - 1) : s[i] = " "
    /\ \A i \in a..b : s[i] # " "
    /\ b = Len(s) \/ s[b + 1] = " "

\* s[a..b] is the first maximal run of digits, periods and commas of s
RunAt(s, a, b) ==
    /\ a <= b
    /\ \A i \in 1..(a - 1) : ~IsNumChar(s[i])
    /\ \A i \in a..b : IsNumChar(s[i])
    /\ b = Len(s) \/ ~IsNumChar(s[b + 1])

Spans(s) == (1..Len(s)) \X (1..Len(s))
HasToken(s) == \E ab \in Spans(s) : TokenAt(s, ab[1], ab[2])
TokenOf(s) ==
    LET ab == CHOOSE ab \in Spans(s) : TokenAt(s, ab[1], ab[2])
    IN  SubSeq(s, ab[1], ab[2])
HasRun(s) == \E ab \in Spans(s) : RunAt(s, ab[1], ab[2])
RunOf(s) ==
    LET ab == CHOOSE ab \in Spans(s) : RunAt(s, ab[1], ab[2])
    IN  SubSeq(s, ab[1], ab[2])

\* a piece of text read as a number with a decimal comma or period, None
\* when it is no number
AsNumber(piece) == Catch(PyFloat(CommaToPeriod(piece)), {"ValueError"}, None)

\* C8 as amended: the for-sale sanitize_size and sanitize_rooms read the
\* first white-space delimited token (None when it is no number, IndexError
\* when a non-empty text holds no token); the sold ones read the first run
\* of digits, periods and commas anywhere in the text (None when there is
\* none or it is no number); both give None for None and ''; the scripts
\* agree whenever the first token holds digits, periods and commas only.
C8_SizeRoomsRules ==
    call.fn \in {"sanitize_size", "sanitize_rooms"} =>
        LET x == input.text
        IN  IF ~Truthy(x) THEN call.sale = None /\ call.sold = None
            ELSE /\ call.sale = IF HasToken(x.s) THEN AsNumber(TokenOf(x.s))
                                ELSE Raise("IndexError")
                 /\ call.sold = IF HasRun(x.s) THEN AsNumber(RunOf(x.s))
                                ELSE None
                 /\ (HasToken(x.s) /\ \A i \in 1..Len(TokenOf(x.s)) :
                                          IsNumChar(TokenOf(x.s)[i]))
                        => call.sale = call.sold

\* C8's case: a word before the number; the for-sale script gives None,
\* the sold script the number
C8_Witness ==
    /\ call.fn = "sanitize_size"
    /\ input.text = StrV(<<"m", " ", "5">>)
    /\ call.sale = None
    /\ call.sold = FloatV(5, 0)

\* C8 as stated: both scripts decide from the first white-space delimited
\* token only, None when it is no number, and so return the same value.
C8_FirstTokenOnly ==
    call.fn \in {"sanitize_size", "sanitize_rooms"} =>
        LET x == input.text
            want == IF Truthy(x) /\ HasToken(x.s) THEN AsNumber(TokenOf(x.s))
                    ELSE None
        IN  call.sale = want /\ call.sold = want

\* C9: save_to_csv leaves the output file as it was (absent or stale) when
\* the collection is empty, and otherwise writes the header row followed
\* by one row per listing, in the order of the collection.
C9_SaveToCsv ==
    /\ pc # "exit" => file = IF stale THEN StaleFile ELSE NoFile
    /\ pc = "exit" =>
          IF listings = <<>>
          THEN file = IF stale THEN StaleFile ELSE NoFile
          ELSE /\ file.exists
               /\ Len(file.rows) = Len(listings) + 1
               /\ file.rows[1] = CsvHeader(variant)
               /\ \A i \in 1..Len(listings) :
                     file.rows[i + 1] = CsvRow(variant, listings[i])

\* C9's case: cards were processed, none was kept, and the file of an
\* earlier run is still there
C9_Witness ==
    /\ pc = "exit"
    /\ listings = <<>>
    /\ started > 0
    /\ stale
    /\ file = StaleFile

\* C10: requests go out for pages 1, 2, 3, ... in order, each once; a
\* request is issued only when every card of the pages before it has been
\* processed and one delay per earlier page has elapsed; nothing is
\* requested after a failed fetch.
C10_FetchOrder ==
    /\ \A i \in 1..Len(requested) : requested[i] = i
    /\ pc = "fetch" =>
          /\ page = Len(requested) + 1
          /\ sleeps = Len(requested)
          /\ items = <<>>
          /\ started = served
    /\ requested # <<>> => sleeps \in {Len(requested) - 1, Len(requested)}
    /\ outcome \in {"fetch_error", "card_error"} =>
          /\ pc \in {"done", "exit"}
          /\ Last(requested) = page

\* C10's case: the third request, after two processed pages and two delays
C10_Witness ==
    /\ pc = "cards"
    /\ Len(requested) = 3
    /\ sleeps = 2
    /\ started = served - 1

DigitRunAt(s, a, b) ==
    /\ a <= b
    /\ \A i \in 1..(a - 1) : ~IsDigit(s[i])
    /\ \A i \in a..b : IsDigit(s[i])
    /\ b = Len(s) \/ ~IsDigit(s[b + 1])

DigitRunOf(s) ==
    LET ab == CHOOSE ab \in Spans(s) : DigitRunAt(s, ab[1], ab[2])
    IN  SubSeq(s, ab[1], ab[2])

\* C12: in the for-sale script every kept listing has an integer floor; the
\* floor of a card with primary attributes is the first run of digits of
\* the fourth one, or 1 when there is no fourth attribute or it holds no
\* digit; a card without primary attributes has floor None and price None
\* and is skipped.
C12_FloorDefault ==
    variant = "sale" =>
        /\ \A i \in 1..Len(listings) : listings[i].floor.t = "int"
        /\ call.fn = "card" =>
              LET a == input.item.primary
                  l == call.listing
              IN  /\ a # <<>> =>
                        l.floor = IF Len(a) >= 4 /\ HasDigit(a[4])
                                  THEN IntV(DigitsToInt(DigitRunOf(a[4])))
                                  ELSE IntV(1)
                  /\ IsNone(l.floor) =>
                        /\ a = <<>>
                        /\ IsNone(l.price)
                        /\ listings = <<>>
                        /\ skipped_listings = 1
                  /\ a = <<>> => IsNone(l.floor)

\* C12's case: a fourth attribute without a digit; the listing is kept with
\* floor 1
C12_Witness ==
    /\ call.fn = "card"
    /\ variant = "sale"
    /\ Len(input.item.primary) = 4
    /\ input.item.primary[4] = <<"BV">>
    /\ Len(listings) = 1
    /\ listings[1].floor = IntV(1)

====
